---- MODULE Spec2Model ----
(***************************************************************************)
(* A model of find_audio.py: the block classifier analyze_block, the scan  *)
(* and extraction of find_audio_blocks, the WAV writer create_wav_header   *)
(* and the main program.                                                   *)
(*                                                                         *)
(* Representation.  A path is a sequence of one-character strings.  The    *)
(* bytes of the image are not enumerated: a file's content is a header (a  *)
(* sequence of bytes) followed by the image bytes [off, off+len), and what *)
(* analyze_block answers for the i-th block of the image is part of the    *)
(* image (image.cls).  A byte string handed to analyze_block is a sequence *)
(* of runs [pat, n]: the first n bytes of pat repeated.  A byte count that *)
(* may not fit a 32-bit field is a pair of limbs [hi, lo], value           *)
(* hi*65536 + lo.  Python's float comparisons are modelled as comparisons  *)
(* of the exact quotients.                                                 *)
(***************************************************************************)
EXTENDS Integers, Sequences, FiniteSets, TLC

VARIABLES
    pc,                   \* position of the program
    input_exists,         \* os.path.exists(image_path)
    argc,                 \* len(sys.argv)
    image,                \* the image file: [size, cls]
    output_dir,           \* the output directory's path
    dirs,                 \* file system: the directories that exist
    files,                \* file system: path -> content
    file_size,            \* find_audio_blocks: local file_size
    total_blocks,         \* find_audio_blocks: local total_blocks
    audio_blocks,         \* find_audio_blocks: local audio_blocks
    current_audio_start,  \* find_audio_blocks: local current_audio_start
    block_num,            \* find_audio_blocks: local block_num
    fpos,                 \* offset of the scan's file object f
    classified,           \* the calls of analyze_block made so far
    ext_i,                \* index i of the extraction loop
    exit_code,            \* the status the process ended with
    data,                 \* the block handed to analyze_block
    result,               \* what analyze_block returned for data
    raw_size,             \* create_wav_header: size of the raw file
    raised                \* the exception that ended the call, "" if none

vars == <<pc, input_exists, argc, image, output_dir, dirs, files, file_size,
          total_blocks, audio_blocks, current_audio_start, block_num, fpos,
          classified, ext_i, exit_code, data, result, raw_size, raised>>

\* Python's None, for current_audio_start and for the status of a process
\* still running: an integer that is no block index and no status.
None == -1

\* ------------------------------------------------------------ constants
SAMPLE_RATE == 48000
BIT_DEPTH == 16
CHANNELS == 2
BYTES_PER_SAMPLE == 2
BLOCK_SIZE == 1024 * 1024

Labels == {"empty", "silence", "noise", "audio"}

\* ------------------------------------------------------------ bounds
MaxBlocks == 3

\* ------------------------------------------------------------ strings
DigitChars == <<"0", "1", "2", "3", "4", "5", "6", "7", "8", "9">>

RECURSIVE Dec(_)
\* The decimal digits of n >= 0.
Dec(n) == IF n < 10 THEN <<DigitChars[n + 1]>>
          ELSE Dec(n \div 10) \o <<DigitChars[(n % 10) + 1]>>

RECURSIVE ZeroPad(_, _)
ZeroPad(s, width) == IF Len(s) >= width THEN s ELSE ZeroPad(<<"0">> \o s, width)

\* f"{n:03d}"
Format03d(n) == ZeroPad(Dec(n), 3)

\* f"{num/den:.0f}" for num >= 0, den > 0: the nearest integer, ties to even.
Format0f(num, den) ==
    LET q == num \div den
        r == num % den
        n == IF 2 * r < den THEN q
             ELSE IF 2 * r > den THEN q + 1
             ELSE IF q % 2 = 0 THEN q ELSE q + 1
    IN  Dec(n)

StartsWith(s, p) == Len(s) >= Len(p) /\ SubSeq(s, 1, Len(p)) = p

RECURSIVE StrReplace(_, _, _)
\* s.replace(old, new): every non-overlapping occurrence, left to right.
StrReplace(s, old, new) ==
    IF Len(s) < Len(old) THEN s
    ELSE IF StartsWith(s, old)
         THEN new \o StrReplace(SubSeq(s, Len(old) + 1, Len(s)), old, new)
         ELSE <<Head(s)>> \o StrReplace(Tail(s), old, new)

\* os.path.join(a, b)
OsPathJoin(a, b) ==
    IF Len(b) > 0 /\ b[1] = "/" THEN b
    ELSE IF Len(a) = 0 \/ a[Len(a)] = "/" THEN a \o b
    ELSE a \o <<"/">> \o b

\* os.path.dirname(p): what precedes the last "/"; the empty path is the
\* working directory.
Dirname(p) ==
    LET slashes == {i \in 1..Len(p) : p[i] = "/"}
    IN  IF slashes = {} THEN <<>>
        ELSE SubSeq(p, 1, (CHOOSE i \in slashes : \A j \in slashes : j <= i) - 1)

\* Path(p).mkdir(parents=True, exist_ok=True): p and every ancestor of p.
MkdirParents(p) ==
    {p} \cup {SubSeq(p, 1, i - 1) : i \in {j \in 1..Len(p) : p[j] = "/"}}

RawExt == <<".", "r", "a", "w">>
WavExt == <<".", "w", "a", "v">>

\* f"audio_block_{i+1:03d}_{start_mb:.0f}MB.raw" joined to output_dir,
\* with start_mb = (start * BLOCK_SIZE) / (1024 * 1024).
OutputFile(dir, i, start) ==
    OsPathJoin(dir,
        <<"a", "u", "d", "i", "o", "_", "b", "l", "o", "c", "k", "_">>
        \o Format03d(i + 1) \o <<"_">>
        \o Format0f(start * BLOCK_SIZE, 1024 * 1024)
        \o <<"M", "B">> \o RawExt)

\* wav_file = output_file.replace('.raw', '.wav')
WavFile(output_file) == StrReplace(output_file, RawExt, WavExt)

\* ------------------------------------------------------------ byte counts
Limb == 256 * 256

\* A byte count as two limbs: hi * Limb + lo.
ToBig(n) == [hi |-> n \div Limb, lo |-> n % Limb]

\* b + k for 0 <= k < Limb.
BigAdd(b, k) == [hi |-> b.hi + ((b.lo + k) \div Limb), lo |-> (b.lo + k) % Limb]

\* struct.pack('<I', v) accepts 0 <= v <= 4294967295.
FitsI(b) == b.hi < Limb

\* The mutant of PackI: big-endian byte order.
PackIBigEndian(b) == <<b.hi \div 256, b.hi % 256, b.lo \div 256, b.lo % 256>>

\* struct.pack('<I', v): four bytes, least significant first.
PackI(b) == <<b.lo % 256, b.lo \div 256, b.hi % 256, b.hi \div 256>>

\* struct.pack('<H', v): two bytes, least significant first.
PackH(v) == <<v % 256, v \div 256>>

\* b'RIFF', b'WAVE', b'fmt ', b'data'
RIFF == <<82, 73, 70, 70>>
WAVE == <<87, 65, 86, 69>>
FMT == <<102, 109, 116, 32>>
DATA == <<100, 97, 116, 97>>

\* ------------------------------------------------------------ files
\* A file's content: the bytes hdr followed by the image bytes
\* [off, off + len), len in limbs.
Content(hdr, off, len) == [hdr |-> hdr, off |-> off, len |-> len]

\* os.path.getsize
GetSize(c) == BigAdd(c.len, Len(c.hdr))

\* The 44 bytes create_wav_header writes before the raw data.
WavHeader(size) ==
    RIFF \o PackI(BigAdd(size, 36)) \o WAVE
    \o FMT \o PackI(ToBig(16)) \o PackH(1) \o PackH(CHANNELS)
    \o PackI(ToBig(SAMPLE_RATE))
    \o PackI(ToBig(SAMPLE_RATE * CHANNELS * BYTES_PER_SAMPLE))
    \o PackH(CHANNELS * BYTES_PER_SAMPLE) \o PackH(BIT_DEPTH)
    \o DATA \o PackI(size)

\* create_wav_header(raw_file, wav_file) on the file system (fs, ds):
\* the files it leaves and the exception it raised, if any.
create_wav_header(raw_file, wav_file, fs, ds) ==
    IF raw_file \notin DOMAIN fs
    THEN [files |-> fs, raised |-> "FileNotFoundError"]
    ELSE LET raw == fs[raw_file]
             size == GetSize(raw)
             Put(c) == [p \in DOMAIN fs \cup {wav_file} |->
                           IF p = wav_file THEN c ELSE fs[p]]
         IN  IF Dirname(wav_file) \notin ds
             THEN [files |-> fs, raised |-> "FileNotFoundError"]
             ELSE IF ~FitsI(BigAdd(size, 36))
             THEN [files |-> Put(Content(RIFF, 0, ToBig(0))),
                   raised |-> "struct.error"]
             ELSE [files |-> Put(Content(WavHeader(size) \o raw.hdr,
                                         raw.off, raw.len)),
                   raised |-> ""]

\* ------------------------------------------------------------ analyze_block
Min(a, b) == IF a < b THEN a ELSE b
Abs(x) == IF x < 0 THEN 0 - x ELSE x

\* An exact quotient num / den, den > 0.
Rat(num, den) == [num |-> num, den |-> den]

\* r < k and r > k for an integer k, without forming k * r.den.
RatLtInt(r, k) == (r.num \div r.den) < k
RatGtInt(r, k) == LET q == r.num \div r.den
                  IN  q > k \/ (q = k /\ r.num % r.den # 0)

\* r < a / b and r > a / b for small a, b > 0.
RatLtFrac(r, a, b) == r.num * b < a * r.den
RatGtFrac(r, a, b) == r.num * b > a * r.den

RECURSIVE SumSeq(_, _, _)
\* s[lo] + ... + s[hi], by halves.
SumSeq(s, lo, hi) ==
    IF lo > hi THEN 0
    ELSE IF lo = hi THEN s[lo]
    ELSE LET mid == (lo + hi) \div 2
         IN  SumSeq(s, lo, mid) + SumSeq(s, mid + 1, hi)

RECURSIVE MaxSeq(_, _, _)
\* The greatest of s[lo], ..., s[hi], lo <= hi, by halves.
MaxSeq(s, lo, hi) ==
    IF lo = hi THEN s[lo]
    ELSE LET mid == (lo + hi) \div 2
             l == MaxSeq(s, lo, mid)
             r == MaxSeq(s, mid + 1, hi)
         IN  IF l < r THEN r ELSE l

RECURSIVE BytesLen(_)
\* len(data)
BytesLen(d) == IF d = <<>> THEN 0 ELSE Head(d).n + BytesLen(Tail(d))

RECURSIVE BytesAt(_, _)
\* data[i], 0 <= i < len(data)
BytesAt(d, i) ==
    IF i < Head(d).n THEN Head(d).pat[(i % Len(Head(d).pat)) + 1]
    ELSE BytesAt(Tail(d), i - Head(d).n)

\* The occurrences of b in the first n bytes of the repeated pattern pat.
CountRun(pat, n, b) ==
    (n \div Len(pat)) * Cardinality({j \in 1..Len(pat) : pat[j] = b})
    + Cardinality({j \in 1..(n % Len(pat)) : pat[j] = b})

RECURSIVE Count(_, _)
\* data.count(b)
Count(d, b) ==
    IF d = <<>> THEN 0
    ELSE CountRun(Head(d).pat, Head(d).n, b) + Count(Tail(d), b)

\* struct.unpack('<h', b)[0] of the two bytes lo, hi.
Int16(lo, hi) == LET u == lo + 256 * hi
                 IN  IF u >= 32768 THEN u - 65536 ELSE u

\* The mutants of ZeroRatioGt99: >= for >, and the ratio taken for a
\* percentage.
ZeroRatioGe99(zero_count, len) == 100 * zero_count >= 99 * len
ZeroRatioGt99Percent(zero_count, len) == zero_count > 99 * len

\* zero_ratio > 0.99, zero_ratio = zero_count / len(data).
ZeroRatioGt99(zero_count, len) == 100 * zero_count > 99 * len

\* zero_ratio > 0.90
ZeroRatioGt90(zero_count, len) == 100 * zero_count > 90 * len

\* The mutant of Samples: the frames of the whole block are sampled.
SamplesOfWholeBlock(d) ==
    LET starts == {i \in 0..(BytesLen(d) - 1) :
                      i % 4 = 0 /\ i + 2 <= BytesLen(d)}
    IN  [k \in 1..Cardinality(starts) |->
            Int16(BytesAt(d, 4 * (k - 1)), BytesAt(d, 4 * (k - 1) + 1))]

\* The loop of lines 42-48: one sample per 4-byte frame that starts within
\* the first 40000 bytes and holds two bytes.
Samples(d) ==
    LET starts == {i \in 0..(Min(BytesLen(d), 40000) - 1) :
                      i % 4 = 0 /\ i + 2 <= BytesLen(d)}
    IN  [k \in 1..Cardinality(starts) |->
            Int16(BytesAt(d, 4 * (k - 1)), BytesAt(d, 4 * (k - 1) + 1))]

\* variance = sum((s - avg) ** 2 for s in samples) / len(samples),
\* avg = sum(samples) / len(samples): (n * sum s^2 - (sum s)^2) / n^2.
Variance(samples) ==
    LET n == Len(samples)
        t == SumSeq(samples, 1, n)
        q == SumSeq([k \in 1..n |-> samples[k] * samples[k]], 1, n)
    IN  Rat(n * q - t * t, n * n)

\* max_val = max(abs(s) for s in samples)
MaxVal(samples) ==
    MaxSeq([k \in 1..Len(samples) |-> Abs(samples[k])], 1, Len(samples))

\* sum(diffs), diffs = [abs(samples[i] - samples[i-1]) for i in 1..n-1]
SumDiffs(samples) ==
    SumSeq([k \in 1..(Len(samples) - 1) |-> Abs(samples[k + 1] - samples[k])],
           1, Len(samples) - 1)

\* smoothness = 1.0 - (avg_diff / (max_val * 2)) for max_val > 0,
\* avg_diff = sum(diffs) / len(diffs) if diffs else 0.
Smoothness(samples) ==
    LET n == Len(samples)
        den == (IF n > 1 THEN n - 1 ELSE 1) * (MaxVal(samples) * 2)
    IN  Rat(den - SumDiffs(samples), den)

\* The mutant of SmoothLt02: the threshold of the line above.
SmoothLt03(smoothness) == RatLtFrac(smoothness, 3, 10)

\* smoothness < 0.2, smoothness > 0.3, variance < 1000, variance > 10000
SmoothLt02(smoothness) == RatLtFrac(smoothness, 2, 10)
SmoothGt03(smoothness) == RatGtFrac(smoothness, 3, 10)
VarLt1000(variance) == RatLtInt(variance, 1000)
VarGt10000(variance) == RatGtInt(variance, 10000)

\* analyze_block(data): <<label, score>>.
analyze_block(d) ==
    IF BytesLen(d) < 1000 THEN <<"empty", Rat(0, 1)>>
    ELSE LET zero_count == Count(d, 0) IN
    IF ZeroRatioGt99(zero_count, BytesLen(d)) THEN <<"empty", Rat(0, 1)>>
    ELSE IF ZeroRatioGt90(zero_count, BytesLen(d))
         THEN <<"silence", Rat(zero_count, BytesLen(d))>>
    ELSE LET samples == Samples(d) IN
    IF Len(samples) < 100 THEN <<"empty", Rat(0, 1)>>
    ELSE IF MaxVal(samples) = 0 THEN <<"silence", Rat(0, 1)>>
    ELSE LET variance == Variance(samples)
             smoothness == Smoothness(samples) IN
    IF VarLt1000(variance) THEN <<"silence", smoothness>>
    ELSE IF SmoothGt03(smoothness) /\ VarGt10000(variance)
         THEN <<"audio", smoothness>>
    ELSE IF SmoothLt02(smoothness) THEN <<"noise", smoothness>>
    ELSE <<"audio", smoothness>>

\* ------------------------------------------------------------ scan loop
\* The mutant of NextStart: every 'audio' block restarts the run.
NextStartRestarts(cur, block_type, n) ==
    IF block_type = "audio" THEN n ELSE None

\* Lines 111-120: current_audio_start after a block of type block_type.
NextStart(cur, block_type, n) ==
    IF block_type = "audio"
    THEN (IF cur = None THEN n ELSE cur)
    ELSE None

\* Lines 115-118: audio_blocks after a block of type block_type.
NextBlocks(cur, blocks, block_type, n) ==
    IF block_type # "audio" /\ cur # None
    THEN Append(blocks, <<cur, n - 1>>)
    ELSE blocks

\* The mutant of CloseAtEof: the last run ends at block_num.
CloseAtEofOffByOne(cur, blocks, n) ==
    IF cur # None THEN Append(blocks, <<cur, n>>) ELSE blocks

\* Lines 127-129: the last run is closed at end of file.
CloseAtEof(cur, blocks, n) ==
    IF cur # None THEN Append(blocks, <<cur, n - 1>>) ELSE blocks

\* The mutant of ReadLen: a read shorter than asked for returns nothing.
ReadLenWholeOnly(pos, want, size) ==
    IF size - pos >= want THEN want ELSE 0

\* len(f.read(want)) at offset pos of a file of size bytes.
ReadLen(pos, want, size) ==
    IF pos >= size THEN 0 ELSE Min(want, size - pos)

\* ------------------------------------------------------------ inputs
\* Lengths of the last block of an image: short of 1000 bytes, 1000 bytes,
\* a whole block.
TailLens == {999, 1000, BLOCK_SIZE}

\* The images: 0..MaxBlocks blocks, the last of a length in TailLens;
\* cls[i] is the label analyze_block gives the i-th block, 'empty' for a
\* block of fewer than 1000 bytes (lines 26-27).
Images ==
    {[size |-> 0, cls |-> <<>>]} \cup
    UNION {{[size |-> (n - 1) * BLOCK_SIZE + t, cls |-> c] :
              c \in {x \in [1..n -> Labels] : t < 1000 => x[n] = "empty"}} :
           n \in 1..MaxBlocks, t \in TailLens}

\* Output directories: "o" and "o.raw".
OutputDirs == {<<"o">>, <<"o">> \o RawExt}

\* The directories that exist before the program runs: the working
\* directory, and possibly "o.wav".
InitialDirs == {{<<>>}, {<<>>, <<"o">> \o WavExt}}

\* The bytes of v as a 16-bit little-endian sample, then two bytes f.
Frame(v, f) == LET u == IF v < 0 THEN v + 65536 ELSE v
               IN  <<u % 256, u \div 256, f, f>>

RECURSIVE Repeat(_, _)
Repeat(s, n) == IF n = 0 THEN <<>> ELSE s \o Repeat(s, n - 1)

\* A block of len bytes of 16-bit stereo frames: the first channel holds a
\* for h frames, then b for h frames, and so on, and c from frame cut on;
\* every byte of the second channel is f.
Pcm(len, a, b, h, f, cut, c) ==
    LET n1 == Min(len, 4 * cut)
    IN  SelectSeq(<<[pat |-> Repeat(Frame(a, f), h) \o Repeat(Frame(b, f), h),
                     n |-> n1],
                    [pat |-> Frame(c, f), n |-> len - n1]>>,
                  LAMBDA seg : seg.n > 0)

\* A block of len bytes: z bytes 0x00, then bytes 0x01.
Zero(len, z) ==
    SelectSeq(<<[pat |-> <<0>>, n |-> z], [pat |-> <<1>>, n |-> len - z]>>,
              LAMBDA seg : seg.n > 0)

ZeroBlocks ==
    {Zero(0, 0), Zero(100, 95), Zero(999, 950), Zero(999, 999),
     Zero(1000, 900), Zero(1000, 901), Zero(1000, 950), Zero(1000, 990),
     Zero(1000, 991), Zero(1000, 1000), Zero(2000, 1801), Zero(2000, 1980),
     Zero(BLOCK_SIZE, BLOCK_SIZE)}

PcmBlocks ==
    {Pcm(1000, 150, -150, 1, 7, 250, 0), Pcm(1000, 150, -150, 1, 9, 250, 0),
     Pcm(1000, 150, -150, 2, 7, 250, 0), Pcm(1000, 150, -150, 2, 9, 250, 0),
     Pcm(1000, 100, -50, 1, 7, 250, 0),  Pcm(1000, 100, -50, 1, 9, 250, 0),
     Pcm(1000, 150, -75, 1, 7, 250, 0),  Pcm(1000, 20, -20, 1, 7, 250, 0),
     Pcm(1000, 0, 0, 1, 7, 250, 0),      Pcm(1000, 100, -100, 2, 7, 250, 0),
     Pcm(1000, 32, -32, 1, 7, 250, 0),   Pcm(1000, 32, -32, 2, 7, 250, 0),
     Pcm(1000, 31, -31, 2, 7, 250, 0),   Pcm(1000, 100, -61, 1, 7, 250, 0),
     Pcm(1000, 100, -59, 1, 7, 250, 0),  Pcm(1000, 100, -41, 1, 7, 250, 0),
     Pcm(1000, 150, -59, 1, 7, 250, 0),  Pcm(999, 150, -150, 2, 7, 250, 0),
     Pcm(1001, 150, -150, 2, 7, 250, 40), Pcm(1001, 150, -150, 2, 7, 250, 90),
     Pcm(1002, 150, -150, 2, 7, 250, 40), Pcm(1002, 150, -150, 2, 7, 250, 90),
     Pcm(400, 150, -150, 2, 7, 250, 0),
     Pcm(40008, 3, -3, 1, 7, 10000, 1),  Pcm(40008, 3, -3, 1, 7, 10000, 2),
     Pcm(40008, 3, -3, 2, 7, 10000, 1)}

\* The blocks handed to analyze_block.
Blocks == ZeroBlocks \cup PcmBlocks

\* Raw file sizes: 0..MaxSmallSize, around a limb boundary, and
\* 2^32 - 36 - NearLimit .. 2^32 - 36 + NearLimit.
MaxSmallSize == 40
NearLimit == 20
RawSizes ==
    {ToBig(n) : n \in 0..MaxSmallSize} \cup
    {ToBig(Limb - 36 + j) : j \in -2..2} \cup
    {BigAdd([hi |-> Limb - 1, lo |-> 0], Limb - 36 - NearLimit + j) :
        j \in 0..(2 * NearLimit)}

RawPath == <<"x">> \o RawExt

\* ------------------------------------------------------------ program
USA_PERCORSI_MANUALI == TRUE

NoFiles == [p \in {} |-> 0]

Idle ==
    /\ file_size = 0 /\ total_blocks = 0 /\ audio_blocks = <<>>
    /\ current_audio_start = None /\ block_num = 0 /\ fpos = 0
    /\ classified = <<>> /\ ext_i = 0 /\ exit_code = None

Init ==
    /\ pc = "main"
    /\ input_exists \in BOOLEAN
    /\ argc \in {1, 3}
    /\ image \in (IF input_exists THEN Images ELSE {[size |-> 0, cls |-> <<>>]})
    /\ output_dir \in OutputDirs
    /\ dirs \in InitialDirs
    /\ files = NoFiles
    /\ Idle
    /\ data = Zero(0, 0) /\ result = <<>> /\ raw_size = ToBig(0) /\ raised = ""

\* Lines 219-240: the paths are the configured ones or, with
\* USA_PERCORSI_MANUALI off, those of the command line, whose absence ends
\* the program with status 1; a missing input ends it with status 1;
\* otherwise find_audio_blocks is called.
Main ==
    /\ pc = "main"
    /\ IF ~USA_PERCORSI_MANUALI /\ argc < 2
       THEN pc' = "exited" /\ exit_code' = 1
       ELSE IF ~input_exists
            THEN pc' = "exited" /\ exit_code' = 1
            ELSE pc' = "find" /\ UNCHANGED exit_code
    /\ UNCHANGED <<input_exists, argc, image, output_dir, dirs, files,
                   file_size, total_blocks, audio_blocks, current_audio_start,
                   block_num, fpos, classified, ext_i, data, result, raw_size,
                   raised>>

\* Lines 89-101: sizes, the empty run list, the file opened at offset 0.
FindStart ==
    /\ pc = "find"
    /\ file_size' = image.size
    /\ total_blocks' = image.size \div BLOCK_SIZE
    /\ audio_blocks' = <<>>
    /\ current_audio_start' = None
    /\ block_num' = 0
    /\ fpos' = 0
    /\ pc' = "scan"
    /\ UNCHANGED <<input_exists, argc, image, output_dir, dirs, files, classified,
                   ext_i, exit_code, data, result, raw_size, raised>>

\* Lines 103-125: one iteration of the scan loop on a block that was read.
ScanBlock ==
    /\ pc = "scan"
    /\ LET len == ReadLen(fpos, BLOCK_SIZE, image.size)
           block_type == image.cls[(fpos \div BLOCK_SIZE) + 1]
       IN  /\ len > 0
           /\ fpos' = fpos + len
           /\ classified' = Append(classified,
                  [num |-> block_num, len |-> len, type |-> block_type])
           /\ current_audio_start' =
                  NextStart(current_audio_start, block_type, block_num)
           /\ audio_blocks' =
                  NextBlocks(current_audio_start, audio_blocks, block_type,
                             block_num)
           /\ block_num' = block_num + 1
    /\ UNCHANGED <<pc, input_exists, argc, image, output_dir, dirs, files, file_size,
                   total_blocks, ext_i, exit_code, data, result, raw_size, raised>>

\* Lines 104-106 and 127-129: the read returns nothing, the loop ends and
\* the run still open is closed.
ScanEof ==
    /\ pc = "scan"
    /\ ReadLen(fpos, BLOCK_SIZE, image.size) = 0
    /\ audio_blocks' = CloseAtEof(current_audio_start, audio_blocks, block_num)
    /\ pc' = "mkdir"
    /\ UNCHANGED <<input_exists, argc, image, output_dir, dirs, files, file_size,
                   total_blocks, current_audio_start, block_num, fpos,
                   classified, ext_i, exit_code, data, result, raw_size, raised>>

\* Line 136: the output directory is created.
MakeDir ==
    /\ pc = "mkdir"
    /\ dirs' = dirs \cup MkdirParents(output_dir)
    /\ ext_i' = 0
    /\ pc' = "extract"
    /\ UNCHANGED <<input_exists, argc, image, output_dir, files, file_size,
                   total_blocks, audio_blocks, current_audio_start, block_num,
                   fpos, classified, exit_code, data, result, raw_size, raised>>

\* Lines 150-151: f.seek(start * BLOCK_SIZE); f.read((end - start + 1) *
\* BLOCK_SIZE): the content of the raw file of the run <<start, end>>.
RunData(run, size) ==
    Content(<<>>, run[1] * BLOCK_SIZE,
            ToBig(ReadLen(run[1] * BLOCK_SIZE,
                          (run[2] - run[1] + 1) * BLOCK_SIZE, size)))

\* Lines 140-161: one iteration of the extraction loop: the raw file is
\* written, then create_wav_header writes the WAV file or raises.
ExtractRun ==
    /\ pc = "extract"
    /\ ext_i < Len(audio_blocks)
    /\ LET run == audio_blocks[ext_i + 1]
           output_file == OutputFile(output_dir, ext_i, run[1])
           wav_file == WavFile(output_file)
           written == [p \in DOMAIN files \cup {output_file} |->
                          IF p = output_file THEN RunData(run, image.size)
                          ELSE files[p]]
           r == create_wav_header(output_file, wav_file, written, dirs)
       IN  /\ files' = r.files
           /\ raised' = r.raised
           /\ IF r.raised = ""
              THEN pc' = "extract" /\ ext_i' = ext_i + 1 /\ UNCHANGED exit_code
              ELSE pc' = "raised" /\ exit_code' = 1 /\ UNCHANGED ext_i
    /\ UNCHANGED <<input_exists, argc, image, output_dir, dirs, file_size,
                   total_blocks, audio_blocks, current_audio_start, block_num,
                   fpos, classified, data, result, raw_size>>

\* Lines 163 and 240-248: find_audio_blocks returns and the program ends.
Finish ==
    /\ pc = "extract"
    /\ ext_i = Len(audio_blocks)
    /\ pc' = "done"
    /\ exit_code' = 0
    /\ UNCHANGED <<input_exists, argc, image, output_dir, dirs, files, file_size,
                   total_blocks, audio_blocks, current_audio_start, block_num,
                   fpos, classified, ext_i, data, result, raw_size, raised>>

Next == Main \/ FindStart \/ ScanBlock \/ ScanEof \/ MakeDir \/ ExtractRun
        \/ Finish

Spec == Init /\ [][Next]_vars

\* ------------------------------------------------------------ one block
\* analyze_block on a block of Blocks, inside one iteration of the scan
\* loop, with block 0 an open run or not.
InitBlock ==
    /\ pc = "block"
    /\ data \in Blocks
    /\ current_audio_start \in {None, 0}
    /\ block_num = 1
    /\ audio_blocks = <<>>
    /\ result = <<>>
    /\ input_exists = TRUE /\ argc = 1 /\ image = [size |-> 0, cls |-> <<>>]
    /\ output_dir = <<>> /\ dirs = {<<>>} /\ files = NoFiles
    /\ file_size = 0 /\ total_blocks = 0 /\ fpos = 0 /\ classified = <<>>
    /\ ext_i = 0 /\ exit_code = None /\ raw_size = ToBig(0) /\ raised = ""

\* Lines 108-125 on data.
ClassifyBlock ==
    /\ pc = "block"
    /\ LET r == analyze_block(data)
       IN  /\ result' = r
           /\ current_audio_start' =
                  NextStart(current_audio_start, r[1], block_num)
           /\ audio_blocks' =
                  NextBlocks(current_audio_start, audio_blocks, r[1], block_num)
    /\ block_num' = block_num + 1
    /\ pc' = "classified"
    /\ UNCHANGED <<input_exists, argc, image, output_dir, dirs, files, file_size,
                   total_blocks, fpos, classified, ext_i, exit_code, data,
                   raw_size, raised>>

NextBlock == ClassifyBlock

SpecBlock == InitBlock /\ [][NextBlock]_vars

\* ------------------------------------------------------------ one WAV file
\* create_wav_header on a raw file of raw_size bytes in the working
\* directory.
InitWav ==
    /\ pc = "wav"
    /\ raw_size \in RawSizes
    /\ files = [p \in {RawPath} |-> Content(<<>>, 0, raw_size)]
    /\ dirs = {<<>>}
    /\ input_exists = TRUE /\ argc = 1 /\ image = [size |-> 0, cls |-> <<>>]
    /\ output_dir = <<>>
    /\ Idle
    /\ data = Zero(0, 0) /\ result = <<>> /\ raised = ""

\* Lines 166-198.
WriteWav ==
    /\ pc = "wav"
    /\ LET r == create_wav_header(RawPath, WavFile(RawPath), files, dirs)
       IN  /\ files' = r.files
           /\ pc' = IF r.raised = "" THEN "wav_done" ELSE "wav_raised"
           /\ raised' = r.raised
    /\ UNCHANGED <<input_exists, argc, image, output_dir, dirs, file_size,
                   total_blocks, audio_blocks, current_audio_start, block_num,
                   fpos, classified, ext_i, exit_code, data, result, raw_size>>

NextWav == WriteWav

SpecWav == InitWav /\ [][NextWav]_vars

\* ============================================================ claims
\* The scan loop has ended.
ScanOver == pc \in {"mkdir", "extract", "raised", "done"}

\* Block i (from 0) was classified 'audio'.
AudioAt(i) == classified[i + 1].type = "audio"

\* C1: when the scan loop has ended, audio_blocks lists exactly the maximal
\* runs of blocks classified 'audio', in increasing order: each pair
\* <<start, end>> has start <= end, holds only 'audio' blocks, is bounded by
\* non-audio blocks or the ends of the image, and every 'audio' block lies
\* in exactly one pair.
C1_MaximalRuns ==
    ScanOver =>
        LET n == Len(classified)
            k == Len(audio_blocks)
        IN  /\ \A r \in 1..k :
                  LET start == audio_blocks[r][1]
                      end == audio_blocks[r][2]
                  IN  /\ 0 <= start /\ start <= end /\ end < n
                      /\ \A i \in start..end : AudioAt(i)
                      /\ start > 0 => ~AudioAt(start - 1)
                      /\ end + 1 < n => ~AudioAt(end + 1)
            /\ \A r \in 1..(k - 1) : audio_blocks[r][2] < audio_blocks[r + 1][1]
            /\ \A i \in 0..(n - 1) :
                  AudioAt(i) =>
                      Cardinality({r \in 1..k : /\ audio_blocks[r][1] <= i
                                                /\ i <= audio_blocks[r][2]}) = 1

\* C1 witness: three blocks, the last two 'audio': one run, <<1, 2>>, that
\* reaches the last block of the image.
C1_Witness ==
    /\ ScanOver
    /\ Len(classified) = 3
    /\ ~AudioAt(0) /\ AudioAt(1) /\ AudioAt(2)
    /\ audio_blocks = <<<<1, 2>>>>

\* A run is open.
RunOpen == current_audio_start # None

\* C2, the part about states: from the start of the scan on, a run is open
\* if and only if the block classified last was 'audio', and then
\* current_audio_start is the first block of the unbroken stretch of 'audio'
\* blocks that ends with it.
C2_OpenIffLastAudio ==
    (pc = "scan" \/ ScanOver) =>
        /\ block_num = Len(classified)
        /\ RunOpen <=> (block_num > 0 /\ AudioAt(block_num - 1))
        /\ RunOpen =>
              /\ 0 <= current_audio_start /\ current_audio_start < block_num
              /\ \A i \in current_audio_start..(block_num - 1) : AudioAt(i)
              /\ current_audio_start > 0 => ~AudioAt(current_audio_start - 1)

\* C2, the part about opening: a run is opened only by a block classified
\* 'audio' that is the first block or follows a block that is not 'audio'.
C2_OpenedOnTransition ==
    (~RunOpen /\ RunOpen') =>
        /\ pc = "scan" /\ Len(classified') = block_num + 1
        /\ classified'[block_num + 1].type = "audio"
        /\ current_audio_start' = block_num
        /\ block_num > 0 => ~AudioAt(block_num - 1)

\* C2, the part about appending: a pair is appended only with a run open,
\* by a block that is not 'audio' or by the end of the file, and the pair
\* is the open run up to the block classified last.
C2_AppendedOnClose ==
    (audio_blocks' # audio_blocks) =>
        /\ RunOpen
        /\ audio_blocks' =
               Append(audio_blocks, <<current_audio_start, block_num - 1>>)
        /\ \/ /\ Len(classified') = block_num + 1
              /\ classified'[block_num + 1].type # "audio"
           \/ /\ classified' = classified
              /\ fpos >= image.size
              /\ pc' = "mkdir"

\* C2 as stated: after a pair is appended, no run is open.
C2_ClosedAfterAppend == (audio_blocks' # audio_blocks) => ~RunOpen'

\* C2 as amended: after a pair is appended by a block that is not 'audio',
\* no run is open; the append at the end of the file leaves
\* current_audio_start as it was.
C2_ClosedAfterAppendInLoop ==
    (audio_blocks' # audio_blocks) =>
        IF classified' # classified THEN ~RunOpen'
        ELSE current_audio_start' = current_audio_start /\ RunOpen'

\* C2 (original): the state part, the opening part, the appending part, and
\* no run open after any append.
C2_Original ==
    /\ []C2_OpenIffLastAudio
    /\ [][/\ C2_OpenedOnTransition
          /\ C2_AppendedOnClose
          /\ C2_ClosedAfterAppend]_vars

\* C2 (amended): the state part, the opening part, the appending part, and
\* no run open after an append made inside the loop, while the append at
\* the end of the file does not reset current_audio_start.
C2_Amended ==
    /\ []C2_OpenIffLastAudio
    /\ [][/\ C2_OpenedOnTransition
          /\ C2_AppendedOnClose
          /\ C2_ClosedAfterAppendInLoop]_vars

\* C2 witness: blocks audio, other, audio: one run closed inside the loop,
\* one at the end of the file, current_audio_start still 2.
C2_Witness ==
    /\ pc = "mkdir"
    /\ audio_blocks = <<<<0, 0>>, <<2, 2>>>>
    /\ current_audio_start = 2

\* struct.unpack('<I') and struct.unpack('<H') of the bytes of h from
\* offset at (from 0).
UnpackI(h, at) == [hi |-> h[at + 3] + 256 * h[at + 4],
                   lo |-> h[at + 1] + 256 * h[at + 2]]
UnpackH(h, at) == h[at + 1] + 256 * h[at + 2]

\* The file c is a 44-byte canonical PCM header for size data bytes,
\* followed by the bytes of raw.
ParsesAsWavOf(c, raw, size) ==
    /\ Len(c.hdr) = 44
    /\ SubSeq(c.hdr, 1, 4) = <<82, 73, 70, 70>>
    /\ UnpackI(c.hdr, 4) = BigAdd(size, 36)
    /\ SubSeq(c.hdr, 9, 12) = <<87, 65, 86, 69>>
    /\ SubSeq(c.hdr, 13, 16) = <<102, 109, 116, 32>>
    /\ UnpackI(c.hdr, 16) = [hi |-> 0, lo |-> 16]
    /\ UnpackH(c.hdr, 20) = 1
    /\ UnpackH(c.hdr, 22) = 2
    /\ UnpackI(c.hdr, 24) = [hi |-> 0, lo |-> 48000]
    /\ UnpackI(c.hdr, 28) = [hi |-> 2, lo |-> 60928]
    /\ UnpackH(c.hdr, 32) = 4
    /\ UnpackH(c.hdr, 34) = 16
    /\ SubSeq(c.hdr, 37, 40) = <<100, 97, 116, 97>>
    /\ UnpackI(c.hdr, 40) = size
    /\ raw.hdr = <<>> /\ c.off = raw.off /\ c.len = raw.len /\ raw.len = size

\* raw_size + 36 <= 4294967295, that is raw_size <= 65535 * 65536 + 65499.
FitsHeader(size) == size.hi < 65535 \/ (size.hi = 65535 /\ size.lo <= 65499)

\* C3 (original): after create_wav_header on a raw file of N bytes, the WAV
\* file is a 44-byte header followed by the raw bytes, and the header
\* parses back to RIFF size N + 36, data size N, fmt size 16, format 1,
\* 2 channels, 48000 Hz, byte rate 192000, block align 4, 16 bits.
C3_Original ==
    pc \in {"wav_done", "wav_raised"} =>
        /\ WavFile(RawPath) \in DOMAIN files
        /\ ParsesAsWavOf(files[WavFile(RawPath)], files[RawPath], raw_size)

\* C3 (amended): the same for N <= 4294967259 (N + 36 fits 32 bits); for a
\* larger N create_wav_header raises struct.error and leaves a WAV file
\* that holds the four bytes 'RIFF' only.
C3_Amended ==
    pc \in {"wav_done", "wav_raised"} =>
        /\ WavFile(RawPath) = <<"x", ".", "w", "a", "v">>
        /\ WavFile(RawPath) \in DOMAIN files
        /\ files[RawPath] = Content(<<>>, 0, raw_size)
        /\ IF FitsHeader(raw_size)
           THEN /\ pc = "wav_done" /\ raised = ""
                /\ ParsesAsWavOf(files[WavFile(RawPath)], files[RawPath],
                                 raw_size)
           ELSE /\ pc = "wav_raised" /\ raised = "struct.error"
                /\ files[WavFile(RawPath)] =
                       Content(<<82, 73, 70, 70>>, 0, [hi |-> 0, lo |-> 0])

\* C3 witness: the largest raw file whose header can be written,
\* 4294967259 bytes, and its WAV file.
C3_Witness ==
    /\ pc = "wav_done"
    /\ raw_size = [hi |-> 65535, lo |-> 65499]
    /\ UnpackI(files[WavFile(RawPath)].hdr, 4) = [hi |-> 65535, lo |-> 65535]

\* The raw file of the i-th run (from 1) and the WAV file beside it.
RawOfRun(i) == OutputFile(output_dir, i - 1, audio_blocks[i][1])
WavBesideRaw(i) ==
    SubSeq(RawOfRun(i), 1, Len(RawOfRun(i)) - 4) \o <<".", "w", "a", "v">>

\* The image bytes of the run <<start, end>>: from start * BLOCK_SIZE to
\* the end of block end or of the image.
BytesOfRun(run) ==
    LET from == run[1] * BLOCK_SIZE
        to == Min((run[2] + 1) * BLOCK_SIZE, image.size)
    IN  [off |-> from, len |-> to - from]

\* C4: when find_audio_blocks has returned, the output directory holds
\* exactly one .raw and one .wav file per run, numbered 1..k in run order;
\* the i-th .raw file holds the image bytes of the i-th run, and the i-th
\* .wav file is in the same directory under the same name but for the
\* extension and holds 44 header bytes followed by the same bytes.
C4_OneRawOneWavPerRun ==
    pc = "done" =>
        LET k == Len(audio_blocks)
        IN  /\ Cardinality({p \in DOMAIN files : Dirname(p) = output_dir})
                   = 2 * k
            /\ \A i \in 1..k :
                  /\ Dirname(RawOfRun(i)) = output_dir
                  /\ RawOfRun(i) \in DOMAIN files
                  /\ files[RawOfRun(i)].hdr = <<>>
                  /\ files[RawOfRun(i)].off = BytesOfRun(audio_blocks[i]).off
                  /\ files[RawOfRun(i)].len =
                         ToBig(BytesOfRun(audio_blocks[i]).len)
                  /\ WavBesideRaw(i) \in DOMAIN files
                  /\ ParsesAsWavOf(files[WavBesideRaw(i)], files[RawOfRun(i)],
                                   files[RawOfRun(i)].len)

\* C4 where the path of the output directory does not contain ".raw": the
\* statement of C4 holds.
C4_HoldsWithoutRawInDir ==
    output_dir = <<"o">> => C4_OneRawOneWavPerRun

\* C5: a missing input ends the program with status 1 before
\* find_audio_blocks is called: no block is read, no directory is created,
\* no file is written; with the input present the program does not exit
\* through its own check and is not ended by an exception.
C5_ExitBehaviour ==
    /\ ~input_exists =>
          /\ pc \in {"main", "exited"}
          /\ pc = "exited" => exit_code = 1
          /\ classified = <<>> /\ fpos = 0
          /\ output_dir \notin dirs
          /\ files = NoFiles
    /\ input_exists => pc \notin {"exited", "raised"}

\* C5, the part that holds: a missing input ends the program with status 1
\* and nothing read, created or written, and the program's own exit is
\* taken for no other reason.
C5_MissingInputOnly ==
    /\ ~input_exists =>
          /\ pc \in {"main", "exited"}
          /\ pc = "exited" => exit_code = 1
          /\ classified = <<>> /\ fpos = 0
          /\ output_dir \notin dirs
          /\ files = NoFiles
    /\ input_exists => pc # "exited"

CeilDiv(a, b) == (a + b - 1) \div b

\* C10, the part about states: the blocks classified are 0, 1, 2, ... in
\* order, each of BLOCK_SIZE bytes but a shorter, non-empty last one; when
\* the loop has ended, ceil(S / BLOCK_SIZE) blocks were classified, which is
\* total_blocks exactly when S is a multiple of BLOCK_SIZE, and every run
\* ends before the number of blocks classified.
C10_BlocksClassified ==
    (pc = "scan" \/ ScanOver) =>
        /\ \A k \in 1..Len(classified) :
              /\ classified[k].num = k - 1
              /\ classified[k].type = image.cls[k]
              /\ classified[k].len =
                     IF k <= image.size \div 1048576 THEN 1048576
                     ELSE image.size % 1048576
              /\ classified[k].len > 0
        /\ ScanOver =>
              /\ Len(classified) = CeilDiv(image.size, 1048576)
              /\ block_num = Len(classified)
              /\ total_blocks = image.size \div 1048576
              /\ (block_num = total_blocks) <=> (image.size % 1048576 = 0)
              /\ \A r \in 1..Len(audio_blocks) : audio_blocks[r][2] < block_num

\* C10, the part about termination: while the loop runs a step of it can
\* be taken, and each iteration classifies one block and moves the file
\* offset forward by the block's length, never past the end of the image.
C10_LoopCanStep == pc = "scan" => ENABLED (ScanBlock \/ ScanEof)
C10_LoopAdvances ==
    pc = "scan" =>
        \/ /\ pc' = "scan"
           /\ Len(classified') = Len(classified) + 1
           /\ block_num' = block_num + 1
           /\ fpos' = fpos + classified'[Len(classified')].len
           /\ fpos < fpos' /\ fpos' <= image.size
        \/ /\ pc' = "mkdir"
           /\ fpos = image.size
           /\ classified' = classified /\ block_num' = block_num

\* C10: the scan loop ends after classifying ceil(S / BLOCK_SIZE) blocks,
\* each once and in order, the short last block included; the blocks
\* classified are total_blocks only when S is a multiple of BLOCK_SIZE, and
\* every run ends before the number of blocks classified.
C10_ScanTerminates ==
    /\ [](C10_BlocksClassified /\ C10_LoopCanStep)
    /\ [][C10_LoopAdvances]_vars

\* C10 witness: an image of one block and 1000 bytes; the short block is
\* classified 'audio' and ends the run <<0, 1>>, and two blocks were
\* classified while total_blocks is 1.
C10_Witness ==
    /\ pc = "mkdir"
    /\ image.size = 1048576 + 1000
    /\ total_blocks = 1 /\ block_num = 2
    /\ classified[2].len = 1000
    /\ audio_blocks = <<<<0, 1>>>>

\* The zero-byte ratio of data exceeds 0.90 and does not exceed 0.99.
ZeroRatioInBand ==
    /\ BytesLen(data) > 0
    /\ 100 * Count(data, 0) > 90 * BytesLen(data)
    /\ 100 * Count(data, 0) <= 99 * BytesLen(data)

\* C6 (original): a block whose zero-byte ratio exceeds 0.90 but not 0.99
\* is labelled 'silence'.
C6_Original ==
    (pc = "classified" /\ ZeroRatioInBand) => result[1] = "silence"

\* C6 (amended): a block of at least 1000 bytes whose zero-byte ratio
\* exceeds 0.90 but not 0.99 is labelled 'silence', with the ratio as its
\* score; a block of fewer than 1000 bytes is labelled 'empty' with score 0
\* whatever its ratio.
C6_Amended ==
    pc = "classified" =>
        /\ (BytesLen(data) >= 1000 /\ ZeroRatioInBand) =>
               result = <<"silence", Rat(Count(data, 0), BytesLen(data))>>
        /\ BytesLen(data) < 1000 => result = <<"empty", Rat(0, 1)>>

\* C6 witness: 1000 bytes, 990 of them zero (ratio exactly 0.99), labelled
\* 'silence'.
C6_Witness ==
    /\ pc = "classified"
    /\ BytesLen(data) = 1000 /\ Count(data, 0) = 990
    /\ result[1] = "silence"

\* data is BLOCK_SIZE bytes, all 0x00.
AllZeroBlock == BytesLen(data) = 1048576 /\ Count(data, 0) = 1048576

\* C7: an all-zero block of BLOCK_SIZE bytes is labelled 'empty' with score
\* 0; after it no run is open and it lies in no run.
C7_AllZeroIsEmpty ==
    (pc = "classified" /\ AllZeroBlock) =>
        /\ result = <<"empty", Rat(0, 1)>>
        /\ current_audio_start = None
        /\ \A r \in 1..Len(audio_blocks) : audio_blocks[r][2] < block_num - 1

\* C7 witness: the all-zero block came with the run that began at block 0
\* open; the run was closed as <<0, 0>>.
C7_Witness ==
    /\ pc = "classified" /\ AllZeroBlock
    /\ audio_blocks = <<<<0, 0>>>>

\* The offsets analyze_block reads samples from: the first two bytes of
\* each 4-byte frame that starts within the first 40000 bytes.
SampleOffsets(d) ==
    {i \in 0..(Min(BytesLen(d), 40000) - 1) : i % 4 = 0 /\ i + 2 <= BytesLen(d)}

\* d1 and d2 have the same length and the same number of zero bytes and
\* agree on the bytes that samples are read from.
SameWhereRead(d1, d2) ==
    /\ BytesLen(d1) = BytesLen(d2)
    /\ Count(d1, 0) = Count(d2, 0)
    /\ \A i \in SampleOffsets(d1) :
          /\ BytesAt(d1, i) = BytesAt(d2, i)
          /\ BytesAt(d1, i + 1) = BytesAt(d2, i + 1)

\* C8: analyze_block returns one of the four labels with a score, takes at
\* most 10000 samples, and its result is fixed by the block's length, its
\* count of zero bytes and the bytes at the sample offsets: a block that
\* agrees with data on these gets the result data got, whatever run was
\* open when data was classified.
C8_ResultFixedByBytesRead ==
    pc = "classified" =>
        /\ result[1] \in {"empty", "silence", "noise", "audio"}
        /\ result[2].den > 0
        /\ Len(Samples(data)) <= 10000
        /\ \A d \in Blocks : SameWhereRead(data, d) => analyze_block(d) = result

\* C8 witness: a block of more than 40000 bytes, of which 10000 samples
\* were taken, and another block that differs from it past byte 40000 only.
C8_Witness ==
    /\ pc = "classified"
    /\ BytesLen(data) > 40000
    /\ Len(Samples(data)) = 10000
    /\ \E d \in Blocks : d # data /\ SameWhereRead(data, d)

\* data reaches the statistical stage of analyze_block.
StatisticalStage ==
    /\ BytesLen(data) >= 1000
    /\ 100 * Count(data, 0) <= 90 * BytesLen(data)
    /\ Len(Samples(data)) >= 100
    /\ MaxVal(Samples(data)) > 0

====
